---- MODULE Spec2Model ----
(***************************************************************************)
(* Model of the Universal-Collector item server (src/server.js).           *)
(*                                                                         *)
(* The source file holds two revisions of server.js back to back (lines    *)
(* 1-176 and 177-329).  The model follows the later revision, which has    *)
(* the category filter and the metadata route; the list query of the       *)
(* earlier revision is kept as ListQueryV1.                                *)
(*                                                                         *)
(* JavaScript values are tagged records.  A JSON text is modelled by the   *)
(* document it denotes (or by a malformed text), so JSON.stringify is the  *)
(* projection of a value on what a JSON document can carry and JSON.parse  *)
(* builds the value of a document.                                         *)
(***************************************************************************)
EXTENDS Integers, Sequences, FiniteSets, TLC

\* ------------------------------------------------------------------ bounds
MaxId == 2          \* rows ever inserted
MaxFiles == 2       \* files attached to one request

\* ------------------------------------------------------- JavaScript values
Undef == [t |-> "undefined"]
Null == [t |-> "null"]
Num(n) == [t |-> "number", n |-> n]
Str(s) == [t |-> "string", s |-> s]
Bool(b) == [t |-> "boolean", b |-> b]
NoFields == [k \in {} |-> Undef]
\* an array: its elements and its own non-index properties
Arr(e, p) == [t |-> "array", elems |-> e, props |-> p]
List(e) == Arr(e, NoFields)
\* a plain object: its own properties, a function from the keys present
Obj(f) == [t |-> "object", fields |-> f]
Put(f, k, v) == [y \in DOMAIN f \cup {k} |-> IF y = k THEN v ELSE f[y]]
Field(k, v) == Put(NoFields, k, v)

IsPrimitive(v) == v.t \in {"number", "string", "boolean"}
IsNullish(v) == v.t \in {"undefined", "null"}

\* ToBoolean
Truthy(v) ==
  CASE v.t = "undefined" -> FALSE
    [] v.t = "null" -> FALSE
    [] v.t = "boolean" -> v.b
    [] v.t = "number" -> v.n # 0
    [] v.t = "string" -> v.s # ""
    [] OTHER -> TRUE

\* a || d
OrDefault(v, d) == IF Truthy(v) THEN v ELSE d

\* v[k] for a non-index key k; v is not null or undefined
Get(v, k) ==
  CASE v.t = "object" -> IF k \in DOMAIN v.fields THEN v.fields[k] ELSE Undef
    [] v.t = "array" -> IF k \in DOMAIN v.props THEN v.props[k] ELSE Undef
    [] OTHER -> Undef

\* v[k] = x in sloppy mode: a property write on a primitive is dropped
Set(v, k, x) ==
  CASE v.t = "object" -> Obj(Put(v.fields, k, x))
    [] v.t = "array" -> Arr(v.elems, Put(v.props, k, x))
    [] OTHER -> v

\* --------------------------------------------------------------- JSON text
Text(doc) == [t |-> "text", ok |-> TRUE, doc |-> doc]
Malformed == [t |-> "text", ok |-> FALSE, doc |-> Null]
IsText(v) == v.t = "text"

\* JSON.stringify: an array is written by its elements alone, its other
\* properties are not part of the text.  Values below the top level come from
\* JSON.parse or are fresh arrays of strings, and carry nothing to drop.
JSONstringify(v) ==
  IF v.t = "array" THEN Text(List(v.elems)) ELSE Text(v)

JSONparseThrows(txt) == ~txt.ok
JSONparse(txt) == txt.doc

\* { id: head, ...v } : the own enumerable properties of v, laid over id
RECURSIVE IndexFields(_, _)
IndexFields(e, n) ==
  IF n = 0 THEN NoFields ELSE Put(IndexFields(e, n - 1), ToString(n - 1), e[n])

OwnProps(v) ==
  CASE v.t = "object" -> v.fields
    [] v.t = "array" ->
         LET ix == IndexFields(v.elems, Len(v.elems))
         IN [k \in DOMAIN ix \cup DOMAIN v.props |->
               IF k \in DOMAIN v.props THEN v.props[k] ELSE ix[k]]
    [] OTHER -> NoFields

SpreadOver(head, v) ==
  LET p == OwnProps(v)
  IN Obj([k \in DOMAIN head \cup DOMAIN p |-> IF k \in DOMAIN p THEN p[k] ELSE head[k]])

\* ---------------------------------------------------------- request inputs
FileNames == <<"a.png", "b.png", "c.png", "d.png">>
\* req.files: undefined without a multipart body, else the stored file names
FileInputs == {Undef, List(SubSeq(FileNames, 1, MaxFiles))}

U1 == Str("/uploads/u1.png")
U2 == Str("/uploads/u2.png")

\* decoded attribute payloads
\* an object that echoes two stored images and sets imageUrl, brand and id
WithUrlList ==
  Obj(Put(Put(Put(Field("imageUrls", List(<<U1, U2>>)), "imageUrl", Str("mine.png")),
              "brand", Str("Lego")), "id", Null))
\* an object whose imageUrls is not an array
WithUrlString == Obj(Field("imageUrls", U1))

\* req.body.data: absent, a string (decodable or not), or a native value
DataInputs ==
  {Undef, Malformed, Text(Null), Text(Num(5)), Text(WithUrlList),
   List(<<U1>>), WithUrlString}

OwnedInputs == {Undef, Bool(TRUE), Bool(FALSE), Str("true"), Str("false"), Num(0)}

\* the scalar fields of a request body
ScalarInputs ==
  { [name |-> Str("X"), category |-> Str(""), collection |-> Undef,
     barcode |-> Str(""), owned |-> Str("false")],
    [name |-> Str("X"), category |-> Str("Game"), collection |-> Str("Shelf A"),
     barcode |-> Str("123"), owned |-> Bool(TRUE)],
    [name |-> Undef, category |-> Undef, collection |-> Str(""),
     barcode |-> Undef, owned |-> Str("true")] }

\* req.query.category
FilterInputs == {Undef, Str(""), Str("Toy"), Str("Game")}

\* ids a request may name: every id that can exist and one that never does
IdInputs == 1..(MaxId + 1)

\* -------------------------------------------------------- processItemData
UploadPath(f) == Str("/uploads/" \o f)

NewImages(files) ==
  IF Truthy(files) THEN [i \in 1..Len(files.elems) |-> UploadPath(files.elems[i])]
  ELSE <<>>

ExistingImages(dataObj) ==
  LET u == Get(dataObj, "imageUrls")
  IN IF u.t = "array" THEN u.elems ELSE <<>>

\* the uploads put in front of the echoed images
MergeImagesNewFirst(existingImages, newImages) == newImages \o existingImages

MergeImages(existingImages, newImages) == existingImages \o newImages

\* dataObj after the try/catch of the merge
DecodeData(data) ==
  IF IsText(data)
  THEN IF JSONparseThrows(data) THEN Obj(NoFields) ELSE JSONparse(data)
  ELSE data

\* reading a property of null or undefined throws; so does reading .length
\* of the imageUrls a primitive did not take
MergeThrows(data) ==
  LET dataObj == DecodeData(data)
  IN IsNullish(dataObj) \/ IsPrimitive(dataObj)

CoverImage(urls) == IF Len(urls) > 0 THEN urls[1] ELSE Null

ProcessItemData(body, files) ==
  LET dataObj == DecodeData(body.data)
      merged == MergeImages(ExistingImages(dataObj), NewImages(files))
      withUrls == Set(dataObj, "imageUrls", List(merged))
      urls == Get(withUrls, "imageUrls")
  IN [name |-> body.name, category |-> body.category,
      collection |-> body.collection, barcode |-> body.barcode,
      owned |-> body.owned,
      dataObj |-> Set(withUrls, "imageUrl", CoverImage(urls.elems))]

OwnedFlag(owned) == IF owned = Str("true") \/ owned = Bool(TRUE) THEN 1 ELSE 0

\* ------------------------------------------------------------ the items table
\* items: the rows; seq: the AUTOINCREMENT counter (sqlite_sequence);
\* req, res: the request being served and its response
VARIABLES items, seq, req, res
vars == <<items, seq, req, res>>

\* a bound statement parameter: undefined is bound as NULL
Bind(v) == IF v = Undef THEN Null ELSE v

\* the values the create and update statements are run with
StatementParams(p) ==
  [name |-> Bind(p.name),
   category |-> OrDefault(p.category, Str("Toy")),
   collection |-> OrDefault(p.collection, Str("General")),
   barcode |-> OrDefault(p.barcode, Null),
   owned |-> OwnedFlag(p.owned),
   data |-> JSONstringify(p.dataObj)]

\* name TEXT NOT NULL, collection TEXT NOT NULL
NotNullFails(params) == params.name = Null \/ params.collection = Null

HasId(t, id) == \E r \in t : r.id = id

\* INSERT INTO items (...) VALUES (...): id from AUTOINCREMENT; created_at from
\* CURRENT_TIMESTAMP, kept as the logical time of the insert
SqlInsert(t, lastSeq, params) ==
  t \cup {[id |-> lastSeq + 1, name |-> params.name, category |-> params.category,
           collection |-> params.collection, barcode |-> params.barcode,
           owned |-> params.owned, data |-> params.data, created_at |-> lastSeq + 1]}

\* UPDATE items SET name, category, collection, barcode, owned, data WHERE id = ?
SqlUpdate(t, id, params) ==
  {IF r.id = id
   THEN [r EXCEPT !.name = params.name, !.category = params.category,
                  !.collection = params.collection, !.barcode = params.barcode,
                  !.owned = params.owned, !.data = params.data]
   ELSE r : r \in t}

\* the statement without its WHERE clause
SqlSetOwnedEveryRow(t, id, flag) == {[r EXCEPT !.owned = flag] : r \in t}

\* UPDATE items SET owned = ? WHERE id = ?
SqlSetOwned(t, id, flag) ==
  {IF r.id = id THEN [r EXCEPT !.owned = flag] ELSE r : r \in t}

\* DELETE FROM items WHERE id = ?
SqlDelete(t, id) == {r \in t : r.id # id}

\* the query of the first revision, which takes no filter
ListQueryV1(t, category) == t

\* SELECT * FROM items [WHERE category = ?]
ListQuery(t, category) ==
  IF Truthy(category) THEN {r \in t : r.category = category} ELSE t

\* ORDER BY created_at DESC
Orderings(rows) ==
  {s \in [1..Cardinality(rows) -> rows] :
     /\ \A i, j \in DOMAIN s : i < j => s[i] # s[j] /\ s[i].created_at >= s[j].created_at}

\* item => ({...item, owned: Boolean(item.owned), data: JSON.parse(item.data)})
ListItem(r) == [r EXCEPT !.owned = (r.owned # 0), !.data = JSONparse(r.data)]

\* ------------------------------------------------------------------ responses
NoMeta == [collection |-> {}, brand |-> {}, theme |-> {}, developer |-> {}, publisher |-> {}]

Response(op, status, caught, cause, body, list, meta) ==
  [op |-> op, status |-> status, caught |-> caught, cause |-> cause,
   body |-> body, list |-> list, meta |-> meta]

Ok(op, body) == Response(op, 200, FALSE, "none", body, <<>>, NoMeta)
\* res.status(500).json({ error: ... }) in the handler's own catch
Caught(op, msg) ==
  Response(op, 500, TRUE, "storage", Obj(Field("error", Str(msg))), <<>>, NoMeta)
\* the exception leaves the handler
Uncaught(op, cause) == Response(op, 500, FALSE, cause, Undef, <<>>, NoMeta)

Success == Obj(Field("success", Bool(TRUE)))
NoResponse == Response("none", 200, FALSE, "none", Undef, <<>>, NoMeta)

\* the request: route, :id, body, files, ?category
Request(op, id, body, files, category) ==
  [op |-> op, id |-> id, body |-> body, files |-> files, category |-> category]
NoBody == [name |-> Undef, category |-> Undef, collection |-> Undef,
           barcode |-> Undef, owned |-> Undef, data |-> Undef]
NoRequest == Request("none", 0, NoBody, Undef, Undef)

Init ==
  /\ items = {}
  /\ seq = 0
  /\ req = NoRequest
  /\ res = NoResponse

Idle == req.op = "none"

\* the response is sent; the next request is taken
Send ==
  /\ ~Idle
  /\ req' = NoRequest
  /\ res' = NoResponse
  /\ UNCHANGED <<items, seq>>

\* POST /api/items
Create(body, files, dbFails) ==
  /\ Idle
  /\ seq < MaxId
  /\ req' = Request("create", 0, body, files, Undef)
  /\ IF MergeThrows(body.data)
     THEN /\ res' = Uncaught("create", "merge")
          /\ UNCHANGED <<items, seq>>
     ELSE LET p == ProcessItemData(body, files)
              params == StatementParams(p)
          IN IF dbFails \/ NotNullFails(params)
             THEN /\ res' = Uncaught("create", "storage")
                  /\ UNCHANGED <<items, seq>>
             ELSE /\ items' = SqlInsert(items, seq, params)
                  /\ seq' = seq + 1
                  /\ res' = Ok("create", SpreadOver(Field("id", Num(seq + 1)), p.dataObj))

\* PUT /api/items/:id
Update(id, body, files, dbFails) ==
  /\ Idle
  /\ req' = Request("update", id, body, files, Undef)
  /\ IF MergeThrows(body.data)
     THEN /\ res' = Uncaught("update", "merge")
          /\ UNCHANGED items
     ELSE LET p == ProcessItemData(body, files)
              params == StatementParams(p)
          IN IF dbFails \/ (HasId(items, id) /\ NotNullFails(params))
             THEN /\ res' = Uncaught("update", "storage")
                  /\ UNCHANGED items
             ELSE /\ items' = SqlUpdate(items, id, params)
                  /\ res' = Ok("update", SpreadOver(Field("id", Str(ToString(id))), p.dataObj))
  /\ UNCHANGED seq

\* POST /api/items/:id/toggle
Toggle(id, owned, dbFails) ==
  /\ Idle
  /\ req' = Request("toggle", id, [NoBody EXCEPT !.owned = owned], Undef, Undef)
  /\ IF dbFails
     THEN /\ res' = Uncaught("toggle", "storage")
          /\ UNCHANGED items
     ELSE /\ items' = SqlSetOwned(items, id, IF Truthy(owned) THEN 1 ELSE 0)
          /\ res' = Ok("toggle", Success)
  /\ UNCHANGED seq

\* DELETE /api/items/:id
Delete(id, dbFails) ==
  /\ Idle
  /\ req' = Request("delete", id, NoBody, Undef, Undef)
  /\ IF dbFails
     THEN /\ res' = Uncaught("delete", "storage")
          /\ UNCHANGED items
     ELSE /\ items' = SqlDelete(items, id)
          /\ res' = Ok("delete", Success)
  /\ UNCHANGED seq

\* GET /api/items
ListItems(category, dbFails) ==
  /\ Idle
  /\ req' = Request("list", 0, NoBody, Undef, category)
  /\ IF dbFails
     THEN res' = Caught("list", "Database error")
     ELSE \E s \in Orderings(ListQuery(items, category)) :
            res' = Response("list", 200, FALSE, "none", Undef,
                            [i \in DOMAIN s |-> ListItem(s[i])], NoMeta)
  /\ UNCHANGED <<items, seq>>

\* the values of attribute k over the rows, without the falsy ones
DistinctAttr(t, k) ==
  {Get(JSONparse(r.data), k) : r \in {x \in t : Truthy(Get(JSONparse(x.data), k))}}

\* GET /api/metadata: each sorted array of distinct values is given by its set
Metadata(dbFails) ==
  /\ Idle
  /\ req' = Request("metadata", 0, NoBody, Undef, Undef)
  /\ IF dbFails
     THEN res' = Caught("metadata", "DB Error")
     ELSE res' = Response("metadata", 200, FALSE, "none", Undef, <<>>,
                   [collection |-> {r.collection : r \in {x \in items : Truthy(x.collection)}},
                    brand |-> DistinctAttr(items, "brand"),
                    theme |-> DistinctAttr(items, "theme"),
                    developer |-> DistinctAttr(items, "developer"),
                    publisher |-> DistinctAttr(items, "publisher")])
  /\ UNCHANGED <<items, seq>>

Bodies == {[name |-> s.name, category |-> s.category, collection |-> s.collection,
            barcode |-> s.barcode, owned |-> s.owned, data |-> d] :
             s \in ScalarInputs, d \in DataInputs}

Requests(F) ==
  \/ \E b \in Bodies, f \in FileInputs, x \in F : Create(b, f, x)
  \/ \E id \in IdInputs, b \in Bodies, f \in FileInputs, x \in F : Update(id, b, f, x)
  \/ \E id \in IdInputs, o \in OwnedInputs, x \in F : Toggle(id, o, x)
  \/ \E id \in IdInputs, x \in F : Delete(id, x)
  \/ \E c \in FilterInputs, x \in F : ListItems(c, x)
  \/ \E x \in F : Metadata(x)
  \/ Send

\* the storage engine works
Next == Requests({FALSE})
Spec == Init /\ [][Next]_vars

\* the storage engine may fail on any request
NextFaulty == Requests(BOOLEAN)
SpecFaulty == Init /\ [][NextFaulty]_vars

\* ===================================================================== claims
RowOf(t, id) == CHOOSE r \in t : r.id = id
Blob(r) == JSONparse(r.data)

\* the row a create or update request writes
WrittenId(q, s) == IF q.op = "create" THEN s ELSE q.id
Persisted == /\ req.op \in {"create", "update"}
             /\ res.status = 200
             /\ HasId(items, WrittenId(req, seq))

\* the attribute payload of a request: undefined when absent or undecodable
PayloadValue(data) ==
  IF data.t = "text" THEN (IF data.ok THEN data.doc ELSE Undef) ELSE data
EchoedUrls(data) ==
  LET u == Get(PayloadValue(data), "imageUrls")
  IN IF u.t = "array" THEN u.elems ELSE <<>>
AttachedPaths(files) ==
  IF files = Undef THEN <<>>
  ELSE [i \in 1..Len(files.elems) |-> Str("/uploads/" \o files.elems[i])]
ClaimedUrls(q) == EchoedUrls(q.body.data) \o AttachedPaths(q.files)
HasUrls(r, urls) ==
  /\ Get(Blob(r), "imageUrls") = List(urls)
  /\ Get(Blob(r), "imageUrl") = (IF Len(urls) = 0 THEN Null ELSE urls[1])

\* C1: every stored blob has an imageUrls array, and its imageUrl is the first
\* element of that array, or null when the array is empty.
C1_StoredBlobsHaveImageUrls ==
  \A r \in items :
    /\ Get(Blob(r), "imageUrls").t = "array"
    /\ HasUrls(r, Get(Blob(r), "imageUrls").elems)

\* C2: create, update and toggle store owned = true exactly when the input is
\* the boolean true or the string "true".
C2_OwnedIsNormalized ==
  (/\ req.op \in {"create", "update", "toggle"}
   /\ res.status = 200
   /\ HasId(items, WrittenId(req, seq)))
  => RowOf(items, WrittenId(req, seq)).owned
       = (IF req.body.owned \in {Bool(TRUE), Str("true")} THEN 1 ELSE 0)

\* C3: the id in a create response is non-null and is the id of the row the
\* request inserted, which is above every id given out before.
C3_CreateReturnsFreshId ==
  (req.op = "create" /\ res.status = 200)
  => /\ Get(res.body, "id") = Num(seq)
     /\ HasId(items, seq)
     /\ \A r \in items : r.id <= seq

\* C4: after an update (with a name) of an existing item the stored blob is
\* given by the request alone: its images are the payload's imageUrls followed by the
\* uploads, so [] and null when the request has neither.
C4_UpdateOverwritesBlob ==
  (req.op = "update" /\ HasId(items, req.id) /\ req.body.name # Undef)
  => HasUrls(RowOf(items, req.id), ClaimedUrls(req))

\* C5: a create or update whose payload decodes to an object persists the
\* payload's imageUrls (none when absent or not an array) followed by the
\* uploaded paths in the order received; an update that echoes the stored
\* imageUrls with no file leaves imageUrls and imageUrl as they were.
C5_MergeKeepsOrder ==
  [][(/\ req'.op \in {"create", "update"}
      /\ PayloadValue(req'.body.data).t = "object")
     => /\ (req'.body.name # Undef /\ (req'.op = "update" => HasId(items, req'.id)))
             => /\ res'.status = 200
                /\ HasId(items', WrittenId(req', seq'))
                /\ HasUrls(RowOf(items', WrittenId(req', seq')), ClaimedUrls(req'))
        /\ (/\ req'.op = "update"
            /\ HasId(items, req'.id)
            /\ req'.files = Undef
            /\ Get(Blob(RowOf(items, req'.id)), "imageUrls")
                 = List(EchoedUrls(req'.body.data)))
             => /\ Get(Blob(RowOf(items', req'.id)), "imageUrls")
                     = Get(Blob(RowOf(items, req'.id)), "imageUrls")
                /\ Get(Blob(RowOf(items', req'.id)), "imageUrl")
                     = Get(Blob(RowOf(items, req'.id)), "imageUrl")]_vars

\* an update that echoed two images and attached files has been stored
C5_Witness ==
  /\ req.op = "update"
  /\ Persisted
  /\ PayloadValue(req.body.data).t = "object"
  /\ Len(EchoedUrls(req.body.data)) = 2
  /\ req.files # Undef
  /\ Len(req.files.elems) >= 2
  /\ Len(Get(Blob(RowOf(items, req.id)), "imageUrls").elems) >= 4

\* C6: a create with a name goes through whatever the payload: when it is
\* absent, undecodable or decodes to a non-object, a row is inserted whose
\* images are the uploaded paths.
C6_PayloadNeverBlocksCreate ==
  (/\ req.op = "create"
   /\ req.body.name # Undef
   /\ PayloadValue(req.body.data).t \in {"undefined", "null"})
  => /\ res.status = 200
     /\ HasId(items, seq)
     /\ HasUrls(RowOf(items, seq), AttachedPaths(req.files))

\* C7: an update or a delete naming an id that is not in the table answers
\* with success and leaves the table as it was.
C7_MissingIdIsSilentNoOp ==
  [][(req'.op \in {"update", "delete"} /\ ~HasId(items, req'.id))
     => (res'.status = 200 /\ items' = items)]_vars

\* C8: a request on which the storage engine fails is answered by the
\* handler's own catch with a 500 and a generic body.
C8_StorageErrorsAreCaught ==
  res.cause = "storage"
  => /\ res.caught
     /\ res.status = 500
     /\ res.body \in {Obj(Field("error", Str("Database error"))),
                      Obj(Field("error", Str("DB Error")))}

\* what the list shows of a row
Shown(r) ==
  [id |-> r.id, name |-> r.name, category |-> r.category,
   collection |-> r.collection, barcode |-> r.barcode,
   owned |-> (r.owned = 1), data |-> r.data.doc, created_at |-> r.created_at]
Listed == {res.list[i] : i \in DOMAIN res.list}
ListShows(rows) ==
  /\ Listed = {Shown(r) : r \in rows}
  /\ Len(res.list) = Cardinality(rows)

C10_ToggleChangesOnlyOwned ==
  [][req'.op = "toggle"
     => /\ {r.id : r \in items'} = {r.id : r \in items}
        /\ \A r \in items :
             /\ r.id # req'.id => r \in items'
             /\ r.id = req'.id => \E o \in {0, 1} : [r EXCEPT !.owned = o] \in items']_vars

\* a toggle has set owned on a row that has images, next to a row not owned
C10_Witness ==
  /\ req.op = "toggle"
  /\ res.status = 200
  /\ req.body.owned = Bool(TRUE)
  /\ HasId(items, req.id)
  /\ RowOf(items, req.id).owned = 1
  /\ Get(Blob(RowOf(items, req.id)), "imageUrl") # Null
  /\ \E r \in items : r.id # req.id /\ r.owned = 0

====
